---------------------------- MODULE Spec2Model ----------------------------
(***************************************************************************)
(* Black-Scholes pricing app (src/app.py): the pricing functions d1, d2,   *)
(* black_scholes, calculate_greeks and the script that reads five sliders, *)
(* prices one option, sweeps 100 strikes for the chart and shows the       *)
(* Greeks.                                                                 *)
(*                                                                         *)
(* Floating point.  The program computes in IEEE-754 binary64.  The model  *)
(* keeps binary64's exponent range (overflow to infinity at 2^1024,        *)
(* gradual underflow to zero below 2^-1074), its special values (NaN,      *)
(* +-Inf, +-0) and round-to-nearest-even, and shortens the significand to  *)
(* PrecBits bits so that products fit TLC's integers.  A float is a record *)
(*    [k |-> "nan" | "inf" | "zero" | "fin", s |-> 1 | -1, m, e]           *)
(* whose value, when k = "fin", is s * m * 2^e.                            *)
(***************************************************************************)
EXTENDS Integers, Sequences, FiniteSets, TLC

\* Significand bits of the model's floats.
PrecBits == 12

\* binary64: values of magnitude >= 2^EMaxBits overflow to infinity.
EMaxBits == 1024
\* binary64: the exponent of the least subnormal, 2^-1074.
EMinSub == 0 - 1074

NaN == [k |-> "nan", s |-> 1, m |-> 0, e |-> 0]
Inf(s) == [k |-> "inf", s |-> s, m |-> 0, e |-> 0]
Zero(s) == [k |-> "zero", s |-> s, m |-> 0, e |-> 0]
Fin(s, m, e) == [k |-> "fin", s |-> s, m |-> m, e |-> e]

IsNaN(a) == a.k = "nan"
IsInf(a) == a.k = "inf"
IsZero(a) == a.k = "zero"
IsFin(a) == a.k = "fin"
\* math.isfinite: neither NaN nor an infinity.
IsFinite(a) == a.k \in {"zero", "fin"}

Pow2(n) == 2 ^ n

RECURSIVE BitLenIn(_, _, _)
\* The n in lo..hi with M < 2^n and (n = lo or 2^(n-1) <= M).
BitLenIn(M, lo, hi) ==
    IF lo = hi THEN lo
    ELSE IF M < Pow2((lo + hi) \div 2) THEN BitLenIn(M, lo, (lo + hi) \div 2)
    ELSE BitLenIn(M, ((lo + hi) \div 2) + 1, hi)
\* Number of bits of M, for 0 < M < 2^30.
BitLen(M) == BitLenIn(M, 1, 30)

\* M / 2^sh rounded to nearest, ties to even (M >= 0, sh >= 0).
ShiftRightRNE(M, sh) ==
    IF sh = 0 THEN M
    ELSE IF sh > 30 THEN 0
    ELSE IF (M % Pow2(sh)) > Pow2(sh - 1)
            \/ ((M % Pow2(sh)) = Pow2(sh - 1) /\ (M \div Pow2(sh)) % 2 = 1)
         THEN (M \div Pow2(sh)) + 1
         ELSE M \div Pow2(sh)

\* The exponent of the last kept bit of a value M * 2^E of nb bits: PrecBits
\* bits are kept, fewer below the subnormal threshold.
TargetExp(E, nb) == IF E + nb - PrecBits < EMinSub THEN EMinSub ELSE E + nb - PrecBits

\* s * q * 2^Ef as a float, q < 2^PrecBits already rounded: zero when all
\* bits were lost, infinity beyond the exponent range.
Pack(s, q, Ef) ==
    IF q = 0 THEN Zero(s)
    ELSE IF q >= Pow2(PrecBits - 1) /\ Ef + PrecBits > EMaxBits THEN Inf(s)
    ELSE Fin(s, q, Ef)

\* As Pack, for q <= 2^PrecBits: rounding up may have carried into a new bit.
PackCarry(s, q, Et) ==
    IF q = Pow2(PrecBits) THEN Pack(s, Pow2(PrecBits - 1), Et + 1) ELSE Pack(s, q, Et)

\* s * M * 2^E with the last kept bit at exponent Et.
RoundAt(s, M, E, Et) ==
    PackCarry(s, IF Et >= E THEN ShiftRightRNE(M, Et - E) ELSE M * Pow2(E - Et), Et)

\* The float nearest to s * M * 2^E (0 < M < 2^30): rounding to PrecBits
\* bits, overflow to infinity, gradual underflow.
Round(s, M, E) == RoundAt(s, M, E, TargetExp(E, BitLen(M)))

\* A finite nonzero float with its significand brought to exactly PrecBits
\* bits (subnormals are scaled up; the exponent is unbounded here).
FullM(a) == IF a.m >= Pow2(PrecBits - 1) THEN a.m ELSE a.m * Pow2(PrecBits - BitLen(a.m))
FullE(a) == IF a.m >= Pow2(PrecBits - 1) THEN a.e ELSE a.e - (PrecBits - BitLen(a.m))

FromInt(n) == IF n = 0 THEN Zero(1) ELSE IF n > 0 THEN Round(1, n, 0) ELSE Round(-1, 0 - n, 0)

FNeg(a) == IF IsNaN(a) THEN NaN ELSE [a EXCEPT !.s = 0 - a.s]
FAbs(a) == IF IsNaN(a) THEN NaN ELSE [a EXCEPT !.s = 1]

\* a * b, IEEE-754.
FMul(a, b) ==
    IF IsNaN(a) \/ IsNaN(b) THEN NaN
    ELSE IF (IsInf(a) /\ IsZero(b)) \/ (IsZero(a) /\ IsInf(b)) THEN NaN
    ELSE IF IsInf(a) \/ IsInf(b) THEN Inf(a.s * b.s)
    ELSE IF IsZero(a) \/ IsZero(b) THEN Zero(a.s * b.s)
    ELSE Round(a.s * b.s, a.m * b.m, a.e + b.e)

\* s * (ma / mb) * 2^(E + PrecBits + 4) for full significands ma, mb: the
\* quotient to PrecBits + 4 bits with a sticky bit for the remainder.
DivFull(s, ma, mb, E) ==
    Round(s,
          2 * ((ma * Pow2(PrecBits + 3)) \div mb)
            + (IF (ma * Pow2(PrecBits + 3)) % mb = 0 THEN 0 ELSE 1),
          E)

\* a / b, IEEE-754 (numpy: x/0 is +-inf or NaN, no exception).
FDiv(a, b) ==
    IF IsNaN(a) \/ IsNaN(b) THEN NaN
    ELSE IF (IsInf(a) /\ IsInf(b)) \/ (IsZero(a) /\ IsZero(b)) THEN NaN
    ELSE IF IsInf(a) \/ IsZero(b) THEN Inf(a.s * b.s)
    ELSE IF IsZero(a) \/ IsInf(b) THEN Zero(a.s * b.s)
    ELSE DivFull(a.s * b.s, FullM(a), FullM(b), FullE(a) - FullE(b) - PrecBits - 4)

\* The float nearest to sum * 2^E for an integer sum of either sign.
RoundSigned(sum, E) ==
    IF sum = 0 THEN Zero(1)
    ELSE IF sum > 0 THEN Round(1, sum, E)
    ELSE Round(-1, 0 - sum, E)

\* a + b for finite nonzero a, b with full exponents ea, eb.
AddFull(a, b, ea, eb) ==
    IF ea - eb > PrecBits + 2 THEN a
    ELSE IF eb - ea > PrecBits + 2 THEN b
    ELSE IF ea < eb
         THEN RoundSigned(a.s * FullM(a) + b.s * FullM(b) * Pow2(eb - ea), ea)
         ELSE RoundSigned(a.s * FullM(a) * Pow2(ea - eb) + b.s * FullM(b), eb)

\* a + b, IEEE-754.
FAdd(a, b) ==
    IF IsNaN(a) \/ IsNaN(b) THEN NaN
    ELSE IF IsInf(a) /\ IsInf(b) THEN (IF a.s = b.s THEN a ELSE NaN)
    ELSE IF IsInf(a) THEN a
    ELSE IF IsInf(b) THEN b
    ELSE IF IsZero(a) /\ IsZero(b) THEN (IF a.s = b.s THEN a ELSE Zero(1))
    ELSE IF IsZero(a) THEN b
    ELSE IF IsZero(b) THEN a
    ELSE AddFull(a, b, FullE(a), FullE(b))

FSub(a, b) == FAdd(a, FNeg(b))

\* -1, 0, 1 for the sign of a non-NaN float.
Sgn(a) == IF IsZero(a) THEN 0 ELSE a.s

\* |a| < |b| for nonzero non-NaN floats.
MagLt(a, b) ==
    IF IsInf(a) THEN FALSE
    ELSE IF IsInf(b) THEN TRUE
    ELSE FullE(a) < FullE(b) \/ (FullE(a) = FullE(b) /\ FullM(a) < FullM(b))

\* Comparisons, IEEE-754: every comparison with NaN is false.
FLt(a, b) ==
    /\ ~IsNaN(a) /\ ~IsNaN(b)
    /\ IF Sgn(a) # Sgn(b) THEN Sgn(a) < Sgn(b)
       ELSE IF Sgn(a) = 0 THEN FALSE
       ELSE IF Sgn(a) = 1 THEN MagLt(a, b)
       ELSE MagLt(b, a)
FEq(a, b) == ~IsNaN(a) /\ ~IsNaN(b) /\ (a = b \/ (IsZero(a) /\ IsZero(b)))
FLe(a, b) == FLt(a, b) \/ FEq(a, b)
FGt(a, b) == FLt(b, a)
FGe(a, b) == FLe(b, a)

One == FromInt(1)
Two == FromInt(2)
Half == Fin(1, Pow2(PrecBits - 1), 0 - PrecBits)
\* n / d for integers n, d > 0.
FromRatio(n, d) == FDiv(FromInt(n), FromInt(d))


(***************************************************************************)
(* The library functions the pricing code calls: np.sqrt, np.log, np.exp,  *)
(* scipy.stats.norm.cdf and norm.pdf, on the model's floats.               *)
(***************************************************************************)

\* Constants rounded from 20 fractional bits.
LN2 == Round(1, 726817, -20)
LOG2E == Round(1, 1512775, -20)
SQRTH == Round(1, 741455, -20)
TWO_OVER_SQRTPI == Round(1, 1183191, -20)
ONE_OVER_SQRTPI == Round(1, 591596, -20)
ONE_OVER_SQRT2PI == Round(1, 418321, -20)

RECURSIVE ISqrtFrom(_, _, _)
ISqrtFrom(M, r, b) ==
    IF b = 0 THEN r
    ELSE IF (r + b) * (r + b) <= M THEN ISqrtFrom(M, r + b, b \div 2)
    ELSE ISqrtFrom(M, r, b \div 2)
\* Floor of the square root of M, 0 <= M < 2^30.
ISqrt(M) == ISqrtFrom(M, 0, Pow2(14))

\* sqrt(M * 2^E) for even E, given rt = ISqrt(M): rt to one more bit than
\* kept, with a sticky bit when M is not a square.
SqrtPack(M, rt, E) == Round(1, 2 * rt + (IF rt * rt = M THEN 0 ELSE 1), (E \div 2) - 1)
SqrtEven(M, E) == SqrtPack(M, ISqrt(M), E)
\* sqrt(m * 2^e) for a full significand m.
SqrtFull(m, e) ==
    IF (e - (PrecBits + 2)) % 2 = 0
    THEN SqrtEven(m * Pow2(PrecBits + 2), e - (PrecBits + 2))
    ELSE SqrtEven(m * Pow2(PrecBits + 3), e - (PrecBits + 3))

\* np.sqrt: NaN for a negative argument, no exception.
FSqrt(a) ==
    IF IsNaN(a) THEN NaN
    ELSE IF IsZero(a) THEN a
    ELSE IF a.s = -1 THEN NaN
    ELSE IF IsInf(a) THEN a
    ELSE SqrtFull(FullM(a), FullE(a))

\* The coefficients 1 / (2n + 1) of the atanh series terms FLog keeps.
LogCoef == [n \in 0..4 |-> FromRatio(1, 2 * n + 1)]
RECURSIVE LogSeries(_, _)
\* sum over j >= n of y2^(j-n) / (2j+1), cut after the last coefficient.
LogSeries(y2, n) ==
    IF n \notin DOMAIN LogCoef THEN Zero(1)
    ELSE FAdd(LogCoef[n], FMul(y2, LogSeries(y2, n + 1)))

\* E * ln 2 + ln F, where y = (F - 1) / (F + 1) and ln F = 2 atanh y.
LogSum(E, y) == FAdd(FMul(FromInt(E), LN2), FMul(FMul(Two, y), LogSeries(FMul(y, y), 0)))
\* ln(F * 2^E) for F in [sqrt(1/2), sqrt 2).
LogParts(F, E) == LogSum(E, FDiv(FSub(F, One), FAdd(F, One)))
\* ln(m * 2^e) for a full significand m.
LogFull(m, e) ==
    IF m * m > Pow2(2 * PrecBits - 1)
    THEN LogParts(Fin(1, m, 0 - PrecBits), e + PrecBits)
    ELSE LogParts(Fin(1, m, 1 - PrecBits), e + PrecBits - 1)

\* np.log: log(0) = -inf, log(negative) = NaN, no exception.
FLog(a) ==
    IF IsNaN(a) THEN NaN
    ELSE IF IsZero(a) THEN Inf(-1)
    ELSE IF a.s = -1 THEN NaN
    ELSE IF IsInf(a) THEN a
    ELSE LogFull(FullM(a), FullE(a))

\* The integer nearest to a finite float of magnitude below 2^14.
RoundToInt(a) ==
    IF IsZero(a) THEN 0
    ELSE IF a.e >= 0 THEN a.s * a.m * Pow2(a.e)
    ELSE a.s * ShiftRightRNE(a.m, 0 - a.e)

RECURSIVE Fact(_)
Fact(n) == IF n = 0 THEN 1 ELSE n * Fact(n - 1)

\* The ratios 1 / (n + 1) of successive Taylor terms of e^r that FExp keeps.
ExpCoef == [n \in 0..7 |-> FromRatio(1, n + 1)]
RECURSIVE ExpSeries(_, _)
\* sum over j >= n of r^(j-n) * n!/j!, cut after the last coefficient.
ExpSeries(r, n) ==
    IF n \notin DOMAIN ExpCoef THEN Zero(1)
    ELSE FAdd(One, FMul(FMul(r, ExpCoef[n]), ExpSeries(r, n + 1)))

\* x * 2^n for a finite positive float x.
Scale2(x, n) == Round(1, x.m, x.e + n)
\* e^a = 2^n * e^(a - n ln 2).
ExpReduced(a, n) == Scale2(ExpSeries(FSub(a, FMul(FromInt(n), LN2)), 0), n)

\* np.exp: overflow gives +inf, underflow gives 0, no exception.
FExp(a) ==
    IF IsNaN(a) THEN NaN
    ELSE IF IsInf(a) THEN (IF a.s = 1 THEN a ELSE Zero(1))
    ELSE IF IsZero(a) THEN One
    ELSE IF FGe(a, FromInt(1024)) THEN Inf(1)
    ELSE IF FLe(a, FromInt(-2048)) THEN Zero(1)
    ELSE ExpReduced(a, RoundToInt(FMul(a, LOG2E)))

\* The coefficients 1 / (n! (2n + 1)) of the Maclaurin terms Erf keeps.
ErfCoef == [n \in 0..7 |-> FromRatio(1, Fact(n) * (2 * n + 1))]
RECURSIVE ErfSeries(_, _)
\* sum over j >= n of (-x2)^(j-n) / (j! (2j+1)), cut after the last coefficient.
ErfSeries(x2, n) ==
    IF n \notin DOMAIN ErfCoef THEN Zero(1)
    ELSE FSub(ErfCoef[n], FMul(x2, ErfSeries(x2, n + 1)))
\* erf for |x| < 1.
Erf(x) == FMul(FMul(TWO_OVER_SQRTPI, x), ErfSeries(FMul(x, x), 0))

\* Depth of the continued fraction kept by Erfc: the fraction converges
\* faster the larger z is.
ErfcDepth(z) ==
    IF FGe(z, FromInt(4)) THEN 4
    ELSE IF FGe(z, Two) THEN 10
    ELSE 24
\* n / 2
ErfcCoef == [n \in 1..24 |-> FromRatio(n, 2)]
RECURSIVE ErfcCF(_, _, _)
\* (n/2) / (z + ((n+1)/2) / (z + ... + (depth/2) / (z + 0))), evaluated
\* from the innermost quotient outwards; acc is the part below level n.
ErfcCF(z, n, acc) ==
    IF IsNaN(acc) \/ n = 0 THEN acc
    ELSE ErfcCF(z, n - 1, FDiv(ErfcCoef[n], FAdd(z, acc)))
\* erfc for z >= 1, given ex = exp(-z^2): ex times a factor that decays like
\* 1/(z sqrt(pi)); 0 once ex has underflowed.
ErfcTail(z, ex) ==
    IF IsZero(ex) THEN Zero(1)
    ELSE FMul(FMul(ex, ONE_OVER_SQRTPI),
              FDiv(One, FAdd(z, ErfcCF(z, ErfcDepth(z), Zero(1)))))
\* erfc for z >= SQRTH.
Erfc(z) ==
    IF FLt(z, One) THEN FSub(One, Erf(z))
    ELSE ErfcTail(z, FExp(FNeg(FMul(z, z))))

\* ndtr for x = a / sqrt 2 and z = |x|.
ndtr_scaled(x, z) ==
    IF FLt(z, SQRTH) THEN FAdd(Half, FMul(Half, Erf(x)))
    ELSE IF FGt(x, Zero(1)) THEN FSub(One, FMul(Half, Erfc(z)))
    ELSE FMul(Half, Erfc(z))

\* scipy.stats.norm.cdf (ndtr): NaN for NaN, otherwise a value in [0, 1].
norm_cdf(a) ==
    IF IsNaN(a) THEN NaN
    ELSE ndtr_scaled(FMul(a, SQRTH), FAbs(FMul(a, SQRTH)))

\* scipy.stats.norm.pdf: exp(-x^2/2) / sqrt(2 pi).
norm_pdf(a) == FMul(FExp(FNeg(FDiv(FMul(a, a), Two))), ONE_OVER_SQRT2PI)

(***************************************************************************)
(* The pricing engine, src/app.py lines 7-29.  S, K, T, r and sigma arrive *)
(* as Python floats; np.log, np.sqrt, np.exp, norm.cdf and norm.pdf return *)
(* numpy float64, whose arithmetic never raises.  Between Python floats    *)
(* only S / K (ZeroDivisionError) and sigma ** 2 (OverflowError) raise.    *)
(***************************************************************************)

\* sigma ** 2 on a Python float: OverflowError when the square of a finite
\* sigma is out of range.
pow_raises(sigma) ==
    IF IsFinite(sigma) /\ IsInf(FMul(sigma, sigma)) THEN "OverflowError" ELSE "none"

\* The exception d1 raises, "none" when it returns: S / K is evaluated
\* first, sigma ** 2 next.
d1_raises(S, K, T, r, sigma) ==
    IF IsZero(K) THEN "ZeroDivisionError" ELSE pow_raises(sigma)

d1(S, K, T, r, sigma) ==
    FDiv(FAdd(FLog(FDiv(S, K)),
              FMul(FAdd(r, FMul(Half, FMul(sigma, sigma))), T)),
         FMul(sigma, FSqrt(T)))

d2(S, K, T, r, sigma) == FSub(d1(S, K, T, r, sigma), FMul(sigma, FSqrt(T)))

\* Line 16, given D1 and D2.
bs_call_price(S, K, T, r, D1, D2) ==
    FSub(FMul(S, norm_cdf(D1)),
         FMul(FMul(K, FExp(FMul(FNeg(r), T))), norm_cdf(D2)))

\* Line 17, given D1 and D2.
bs_put_price(S, K, T, r, D1, D2) ==
    FSub(FMul(FMul(K, FExp(FMul(FNeg(r), T))), norm_cdf(FNeg(D2))),
         FMul(S, norm_cdf(FNeg(D1))))

\* Line 18 as "return call_price": the put price is left out.
bs_return_call_only(call_price, put_price) == <<call_price>>

\* Line 18: the tuple black_scholes returns.
bs_return(call_price, put_price) == <<call_price, put_price>>

\* Lines 16-18, given D1 and D2.
bs_prices(S, K, T, r, D1, D2) ==
    bs_return(bs_call_price(S, K, T, r, D1, D2), bs_put_price(S, K, T, r, D1, D2))

\* The value black_scholes returns when d1 does not raise.
black_scholes(S, K, T, r, sigma) ==
    bs_prices(S, K, T, r, d1(S, K, T, r, sigma), d2(S, K, T, r, sigma))

\* Line 24.
cg_delta(D1) == norm_cdf(D1)
\* Line 25.
cg_theta(S, K, T, r, sigma, D1, D2) ==
    FSub(FNeg(FDiv(FMul(FMul(S, norm_pdf(D1)), sigma), FMul(Two, FSqrt(T)))),
         FMul(FMul(FMul(r, K), FExp(FMul(FNeg(r), T))), norm_cdf(D2)))
\* Line 26.
cg_vega(S, T, D1) == FMul(FMul(S, norm_pdf(D1)), FSqrt(T))
\* Line 27.
cg_rho(K, T, r, D2) == FMul(FMul(FMul(K, T), FExp(FMul(FNeg(r), T))), norm_cdf(D2))
\* Line 29: the tuple calculate_greeks returns.
cg_return(delta, theta, vega, rho) == <<delta, theta, vega, rho>>

\* Lines 24-29, given D1 and D2.
cg_greeks(S, K, T, r, sigma, D1, D2) ==
    cg_return(cg_delta(D1), cg_theta(S, K, T, r, sigma, D1, D2),
              cg_vega(S, T, D1), cg_rho(K, T, r, D2))

\* The value calculate_greeks returns when d1 does not raise.
calculate_greeks(S, K, T, r, sigma) ==
    cg_greeks(S, K, T, r, sigma, d1(S, K, T, r, sigma), d2(S, K, T, r, sigma))

\* What a call gives its caller: the exception it raised, or "none" and the
\* value it returned.
Outcome(e, v) == [exc |-> e, ret |-> v]

\* black_scholes(S, K, T, r, sigma) called with Python floats.
call_black_scholes(S, K, T, r, sigma) ==
    IF d1_raises(S, K, T, r, sigma) # "none"
    THEN Outcome(d1_raises(S, K, T, r, sigma), <<>>)
    ELSE Outcome("none", black_scholes(S, K, T, r, sigma))

\* black_scholes(S, K, T, r, sigma) called with a numpy float64 strike: S / K
\* is numpy's division, which does not raise.
call_black_scholes_np(S, K, T, r, sigma) ==
    IF pow_raises(sigma) # "none"
    THEN Outcome(pow_raises(sigma), <<>>)
    ELSE Outcome("none", black_scholes(S, K, T, r, sigma))

\* calculate_greeks(S, K, T, r, sigma) called with Python floats.
call_calculate_greeks(S, K, T, r, sigma) ==
    IF d1_raises(S, K, T, r, sigma) # "none"
    THEN Outcome(d1_raises(S, K, T, r, sigma), <<>>)
    ELSE Outcome("none", calculate_greeks(S, K, T, r, sigma))

(***************************************************************************)
(* The script, src/app.py lines 31-96.  Streamlit runs it top to bottom,   *)
(* once at start and again after every slider change.                      *)
(***************************************************************************)

\* Slider ranges and defaults, in steps of the slider: S and K in units
\* (step=1.0), T_days in days, r in thousandths (step=0.001), sigma in
\* hundredths (step=0.01).
S_MIN == 10
S_MAX == 500
S_DEFAULT == 100
K_MIN == 10
K_MAX == 500
K_DEFAULT == 100
T_MIN == 1
T_MAX == 1825
T_DEFAULT == 365
R_MIN == 0
R_MAX == 200
R_DEFAULT == 50
R_STEPS_PER_UNIT == 1000
SIGMA_MIN == 1
SIGMA_MAX == 200
SIGMA_DEFAULT == 20
SIGMA_STEPS_PER_UNIT == 100
\* T_years = T_days / 365
DAYS_PER_YEAR == 365
\* np.linspace(0.5 * S, 1.5 * S, 100)
NUM_STRIKES == 100

\* Slider changes a session makes.
MaxMoves == 1

\* The positions of each slider the model visits: both ends and the default.
S_slider == {S_MIN, S_DEFAULT, S_MAX}
K_slider == {K_MIN, K_DEFAULT, K_MAX}
T_days_slider == {T_MIN, T_DEFAULT, T_MAX}
r_slider == {R_MIN, R_DEFAULT, R_MAX}
\* The sigma slider with min_value=0.0 instead of 0.01.
sigma_slider_from_zero == {0, SIGMA_DEFAULT, SIGMA_MAX}
sigma_slider == {SIGMA_MIN, SIGMA_DEFAULT, SIGMA_MAX}

\* The float a slider returns at a position.
S_value(n) == FromInt(n)
K_value(n) == FromInt(n)
r_value(n) == FromRatio(n, R_STEPS_PER_UNIT)
sigma_value(n) == FromRatio(n, SIGMA_STEPS_PER_UNIT)
T_years_of(days) == FDiv(FromInt(days), FromInt(DAYS_PER_YEAR))

\* A local or global that has not been assigned.
Unset == [k |-> "unset", s |-> 1, m |-> 0, e |-> 0]
IsSet(a) == a.k # "unset"

\* np.linspace with endpoint=False: num steps of (stop - start) / num, the
\* last value one step short of stop.
linspace_no_endpoint(start, stop, num) ==
    [i \in 1..num |-> FAdd(FMul(FromInt(i - 1), FDiv(FSub(stop, start), FromInt(num))), start)]

\* np.linspace(start, stop, num): step = (stop - start) / (num - 1), the
\* i-th value (from 0) is i * step + start, and the last is set to stop.
linspace(start, stop, num) ==
    [i \in 1..num |->
        IF i = num THEN stop
        ELSE FAdd(FMul(FromInt(i - 1), FDiv(FSub(stop, start), FromInt(num - 1))), start)]

\* Line 61.
strike_sweep(S_) == linspace(FMul(Half, S_), FMul(FromRatio(3, 2), S_), NUM_STRIKES)

\* The global K after "for K in K_values" run as a Python 2 comprehension
\* or a for statement: the loop variable is the global, left at the last
\* strike.
K_leaked_by_comprehension(K_, strikes) == strikes[Len(strikes)]

\* The global K once a comprehension "for K in K_values" has run over
\* strikes: a Python 3 comprehension binds its loop variable in a scope of
\* its own, so the global keeps its value.
K_after_comprehension(K_, strikes) == K_

RECURSIVE PyMinFrom(_, _, _)
PyMinFrom(seq, i, best) ==
    IF i > Len(seq) THEN best
    ELSE IF FLt(seq[i], best) THEN PyMinFrom(seq, i + 1, seq[i])
    ELSE PyMinFrom(seq, i + 1, best)
\* Python's min(list): the first element no later element is less than.
PyMin(seq) == PyMinFrom(seq, 2, seq[1])

RECURSIVE PyMaxFrom(_, _, _)
PyMaxFrom(seq, i, best) ==
    IF i > Len(seq) THEN best
    ELSE IF FGt(seq[i], best) THEN PyMaxFrom(seq, i + 1, seq[i])
    ELSE PyMaxFrom(seq, i + 1, best)
\* Python's max(list).
PyMax(seq) == PyMaxFrom(seq, 2, seq[1])

VARIABLES
    \* the script's globals
    S, K, T_days, r, sigma,
    pc,            \* the line the script is at; "done" after line 96
    T_years, call_price, put_price,
    K_values, call_prices, put_prices,
    y_min, y_max,
    greeks,        \* <<delta, theta, vega, rho>> once line 87 has run
    calls,         \* the engine calls of this run, in order, with results
    moves,         \* slider changes so far
    \* one direct call of the engine, line by line
    fn, args, line, status, locals, ret, exc, prev

script_vars == <<S, K, T_days, r, sigma, pc, T_years, call_price, put_price,
                 K_values, call_prices, put_prices, y_min, y_max, greeks, calls, moves>>
engine_vars == <<fn, args, line, status, locals, ret, exc, prev>>
vars == <<script_vars, engine_vars>>

NoArgs == [S |-> Unset, K |-> Unset, T |-> Unset, r |-> Unset, sigma |-> Unset]
NoLocals == [D1 |-> Unset, D2 |-> Unset, call_price |-> Unset, put_price |-> Unset,
             delta |-> Unset, theta |-> Unset, vega |-> Unset, rho |-> Unset]
NoPrev == [has |-> FALSE, S |-> Unset, ret |-> <<>>]

\* The engine frame when no direct call is being modelled.
EngineIdle ==
    /\ fn = "none" /\ args = NoArgs /\ line = 0 /\ status = "idle"
    /\ locals = NoLocals /\ ret = <<>> /\ exc = "none" /\ prev = NoPrev

\* The script's globals at the start of a run (a fresh namespace).
FreshRun ==
    /\ pc' = "L43"
    /\ T_years' = Unset /\ call_price' = Unset /\ put_price' = Unset
    /\ K_values' = <<>> /\ call_prices' = <<>> /\ put_prices' = <<>>
    /\ y_min' = Unset /\ y_max' = Unset /\ greeks' = <<>> /\ calls' = <<>>

\* The first run: every slider at its default (lines 37-41).
Init ==
    /\ S = S_value(S_DEFAULT) /\ K = K_value(K_DEFAULT) /\ T_days = T_DEFAULT
    /\ r = r_value(R_DEFAULT) /\ sigma = sigma_value(SIGMA_DEFAULT)
    /\ pc = "L43"
    /\ T_years = Unset /\ call_price = Unset /\ put_price = Unset
    /\ K_values = <<>> /\ call_prices = <<>> /\ put_prices = <<>>
    /\ y_min = Unset /\ y_max = Unset /\ greeks = <<>> /\ calls = <<>>
    /\ moves = 0
    /\ EngineIdle

\* The record of one engine call.
Call(f, S_, K_, T_, r_, sigma_, result) ==
    [fn |-> f, S |-> S_, K |-> K_, T |-> T_, r |-> r_, sigma |-> sigma_, ret |-> result]

\* The user moves one slider; the script reruns from the top and the sliders
\* return their values (lines 31-41).
Rerun ==
    /\ pc \in {"done", "error"}
    /\ moves < MaxMoves
    /\ moves' = moves + 1
    /\ \/ \E n \in S_slider :
             S_value(n) # S /\ S' = S_value(n) /\ UNCHANGED <<K, T_days, r, sigma>>
       \/ \E n \in K_slider :
             K_value(n) # K /\ K' = K_value(n) /\ UNCHANGED <<S, T_days, r, sigma>>
       \/ \E n \in T_days_slider \ {T_days} :
             T_days' = n /\ UNCHANGED <<S, K, r, sigma>>
       \/ \E n \in r_slider :
             r_value(n) # r /\ r' = r_value(n) /\ UNCHANGED <<S, K, T_days, sigma>>
       \/ \E n \in sigma_slider :
             sigma_value(n) # sigma /\ sigma' = sigma_value(n) /\ UNCHANGED <<S, K, T_days, r>>
    /\ FreshRun
    /\ UNCHANGED engine_vars

\* Line 43: T_years = T_days / 365
Line43 ==
    /\ pc = "L43"
    /\ T_years' = T_years_of(T_days)
    /\ pc' = "L45"
    /\ UNCHANGED <<S, K, T_days, r, sigma, call_price, put_price, K_values,
                   call_prices, put_prices, y_min, y_max, greeks, calls, moves>>
    /\ UNCHANGED engine_vars

\* The assignment of line 45, given the call's outcome.
Assign45(o) ==
    IF o.exc # "none"
    THEN pc' = "error" /\ UNCHANGED <<call_price, put_price, calls>>
    ELSE /\ call_price' = o.ret[1]
         /\ put_price' = o.ret[2]
         /\ calls' = Append(calls, Call("black_scholes", S, K, T_years, r, sigma, o.ret))
         /\ pc' = "L61"

\* Line 45: call_price, put_price = black_scholes(S, K, T_years, r, sigma)
Line45 ==
    /\ pc = "L45"
    /\ Assign45(call_black_scholes(S, K, T_years, r, sigma))
    /\ UNCHANGED <<S, K, T_days, r, sigma, T_years, K_values, call_prices,
                   put_prices, y_min, y_max, greeks, moves>>
    /\ UNCHANGED engine_vars

\* Line 61: K_values = np.linspace(0.5 * S, 1.5 * S, 100)
Line61 ==
    /\ pc = "L61"
    /\ K_values' = strike_sweep(S)
    /\ pc' = "L62"
    /\ UNCHANGED <<S, K, T_days, r, sigma, T_years, call_price, put_price,
                   call_prices, put_prices, y_min, y_max, greeks, calls, moves>>
    /\ UNCHANGED engine_vars

\* One iteration of the comprehension of line 62, at strike K_values[i],
\* given the call's outcome.
Collect62(i, o) ==
    IF o.exc # "none"
    THEN pc' = "error" /\ UNCHANGED <<K, call_prices, calls>>
    ELSE /\ call_prices' = Append(call_prices, o.ret[1])
         /\ calls' = Append(calls, Call("black_scholes", S, K_values[i], T_years, r, sigma, o.ret))
         /\ IF i = Len(K_values)
            THEN pc' = "L63" /\ K' = K_after_comprehension(K, K_values)
            ELSE pc' = "L62" /\ K' = K

\* Line 62, one iteration:
\* call_prices = [black_scholes(S, K, T_years, r, sigma)[0] for K in K_values]
Line62 ==
    /\ pc = "L62"
    /\ Collect62(Len(call_prices) + 1,
                 call_black_scholes_np(S, K_values[Len(call_prices) + 1], T_years, r, sigma))
    /\ UNCHANGED <<S, T_days, r, sigma, T_years, call_price, put_price, K_values,
                   put_prices, y_min, y_max, greeks, moves>>
    /\ UNCHANGED engine_vars

\* One iteration of the comprehension of line 63.
Collect63(i, o) ==
    IF o.exc # "none"
    THEN pc' = "error" /\ UNCHANGED <<K, put_prices, calls>>
    ELSE /\ put_prices' = Append(put_prices, o.ret[2])
         /\ calls' = Append(calls, Call("black_scholes", S, K_values[i], T_years, r, sigma, o.ret))
         /\ IF i = Len(K_values)
            THEN pc' = "L65" /\ K' = K_after_comprehension(K, K_values)
            ELSE pc' = "L63" /\ K' = K

\* Line 63, one iteration:
\* put_prices = [black_scholes(S, K, T_years, r, sigma)[1] for K in K_values]
Line63 ==
    /\ pc = "L63"
    /\ Collect63(Len(put_prices) + 1,
                 call_black_scholes_np(S, K_values[Len(put_prices) + 1], T_years, r, sigma))
    /\ UNCHANGED <<S, T_days, r, sigma, T_years, call_price, put_price, K_values,
                   call_prices, y_min, y_max, greeks, moves>>
    /\ UNCHANGED engine_vars

\* Lines 65-66: y_min = min(call_prices + put_prices) * 0.9, y_max = max(...) * 1.1
Line65 ==
    /\ pc = "L65"
    /\ y_min' = FMul(PyMin(call_prices \o put_prices), FromRatio(9, 10))
    /\ y_max' = FMul(PyMax(call_prices \o put_prices), FromRatio(11, 10))
    /\ pc' = "L87"
    /\ UNCHANGED <<S, K, T_days, r, sigma, T_years, call_price, put_price, K_values,
                   call_prices, put_prices, greeks, calls, moves>>
    /\ UNCHANGED engine_vars

\* The assignment of line 87, given the call's outcome.
Assign87(o) ==
    IF o.exc # "none"
    THEN pc' = "error" /\ UNCHANGED <<greeks, calls>>
    ELSE /\ greeks' = o.ret
         /\ calls' = Append(calls, Call("calculate_greeks", S, K, T_years, r, sigma, o.ret))
         /\ pc' = "done"

\* Line 87: delta, theta, vega, rho = calculate_greeks(S, K, T_years, r, sigma)
Line87 ==
    /\ pc = "L87"
    /\ Assign87(call_calculate_greeks(S, K, T_years, r, sigma))
    /\ UNCHANGED <<S, K, T_days, r, sigma, T_years, call_price, put_price, K_values,
                   call_prices, put_prices, y_min, y_max, moves>>
    /\ UNCHANGED engine_vars

Next == Rerun \/ Line43 \/ Line45 \/ Line61 \/ Line62 \/ Line63 \/ Line65 \/ Line87

Spec == Init /\ [][Next]_vars

(***************************************************************************)
(* The pricing engine called directly, one source line per step, with      *)
(* arguments from inside and outside its domain.                           *)
(***************************************************************************)

\* The binary exponent of the large arguments tried.
BigExp == 700
\* 2^BigExp
Big == Fin(1, Pow2(PrecBits - 1), BigExp - (PrecBits - 1))

\* The values tried for each parameter of black_scholes and calculate_greeks.
S_args == {FromInt(-1), FromInt(100), FromInt(500)}
K_args == {Zero(1), FromInt(10), FromInt(100), Big}
T_args == {Zero(1), One, Big}
r_args == {FromInt(-1000), FromRatio(5, 100)}
sigma_args == {Zero(1), FromRatio(2, 10), Big}

\* A call's five arguments.
Args(S_, K_, T_, r_, sigma_) == [S |-> S_, K |-> K_, T |-> T_, r |-> r_, sigma |-> sigma_]

\* The frame of a call that has just been entered at line l.
Enter(f, a, l) ==
    /\ fn' = f /\ args' = a /\ line' = l /\ status' = "running"
    /\ locals' = NoLocals /\ ret' = <<>> /\ exc' = "none"

\* A caller calls black_scholes (line 13) or calculate_greeks (line 20).
Invoke ==
    /\ status = "idle"
    /\ \E S_ \in S_args, K_ \in K_args, T_ \in T_args, r_ \in r_args, sigma_ \in sigma_args :
          \/ Enter("black_scholes", Args(S_, K_, T_, r_, sigma_), 14)
          \/ Enter("calculate_greeks", Args(S_, K_, T_, r_, sigma_), 21)
    /\ UNCHANGED prev
    /\ UNCHANGED script_vars

\* After black_scholes has returned, the caller calls it again with another
\* spot price and the same K, T, r, sigma.
InvokeAgain ==
    /\ status = "returned" /\ fn = "black_scholes" /\ ~prev.has
    /\ \E S_ \in S_args \ {args.S} : Enter("black_scholes", [args EXCEPT !.S = S_], 14)
    /\ prev' = [has |-> TRUE, S |-> args.S, ret |-> ret]
    /\ UNCHANGED script_vars

\* The call of d1 or d2 at the current line: the exception propagates out of
\* the function, or the value v is bound to the local named name and the
\* function goes on at line l.
BindOrRaise(name, e, v, l) ==
    IF e # "none"
    THEN /\ status' = "raised" /\ exc' = e
         /\ UNCHANGED <<locals, line>>
    ELSE /\ locals' = [locals EXCEPT ![name] = v]
         /\ line' = l
         /\ UNCHANGED <<status, exc>>

\* An assignment of v to the local named name; the function goes on at line l.
Bind(name, v, l) ==
    /\ locals' = [locals EXCEPT ![name] = v]
    /\ line' = l
    /\ UNCHANGED <<status, exc>>

\* A step inside function f at line l.
At(f, l) == status = "running" /\ fn = f /\ line = l

\* Line 14: D1 = d1(S, K, T, r, sigma)
black_scholes_L14 ==
    /\ At("black_scholes", 14)
    /\ BindOrRaise("D1", d1_raises(args.S, args.K, args.T, args.r, args.sigma),
                   d1(args.S, args.K, args.T, args.r, args.sigma), 15)
    /\ UNCHANGED <<fn, args, ret, prev>>
    /\ UNCHANGED script_vars

\* Line 15: D2 = d2(S, K, T, r, sigma)
black_scholes_L15 ==
    /\ At("black_scholes", 15)
    /\ BindOrRaise("D2", d1_raises(args.S, args.K, args.T, args.r, args.sigma),
                   d2(args.S, args.K, args.T, args.r, args.sigma), 16)
    /\ UNCHANGED <<fn, args, ret, prev>>
    /\ UNCHANGED script_vars

\* Line 16: call_price = S * norm.cdf(D1) - K * np.exp(-r * T) * norm.cdf(D2)
black_scholes_L16 ==
    /\ At("black_scholes", 16)
    /\ Bind("call_price",
            bs_call_price(args.S, args.K, args.T, args.r, locals.D1, locals.D2), 17)
    /\ UNCHANGED <<fn, args, ret, prev>>
    /\ UNCHANGED script_vars

\* Line 17: put_price = K * np.exp(-r * T) * norm.cdf(-D2) - S * norm.cdf(-D1)
black_scholes_L17 ==
    /\ At("black_scholes", 17)
    /\ Bind("put_price",
            bs_put_price(args.S, args.K, args.T, args.r, locals.D1, locals.D2), 18)
    /\ UNCHANGED <<fn, args, ret, prev>>
    /\ UNCHANGED script_vars

\* Line 18: return call_price, put_price
black_scholes_L18 ==
    /\ At("black_scholes", 18)
    /\ ret' = bs_return(locals.call_price, locals.put_price)
    /\ status' = "returned"
    /\ UNCHANGED <<fn, args, line, locals, exc, prev>>
    /\ UNCHANGED script_vars

\* Line 21: D1 = d1(S, K, T, r, sigma)
calculate_greeks_L21 ==
    /\ At("calculate_greeks", 21)
    /\ BindOrRaise("D1", d1_raises(args.S, args.K, args.T, args.r, args.sigma),
                   d1(args.S, args.K, args.T, args.r, args.sigma), 22)
    /\ UNCHANGED <<fn, args, ret, prev>>
    /\ UNCHANGED script_vars

\* Line 22: D2 = d2(S, K, T, r, sigma)
calculate_greeks_L22 ==
    /\ At("calculate_greeks", 22)
    /\ BindOrRaise("D2", d1_raises(args.S, args.K, args.T, args.r, args.sigma),
                   d2(args.S, args.K, args.T, args.r, args.sigma), 24)
    /\ UNCHANGED <<fn, args, ret, prev>>
    /\ UNCHANGED script_vars

\* Line 24: delta = norm.cdf(D1)
calculate_greeks_L24 ==
    /\ At("calculate_greeks", 24)
    /\ Bind("delta", cg_delta(locals.D1), 25)
    /\ UNCHANGED <<fn, args, ret, prev>>
    /\ UNCHANGED script_vars

\* Line 25: theta = -(S * norm.pdf(D1) * sigma) / (2 * np.sqrt(T))
\*                  - r * K * np.exp(-r * T) * norm.cdf(D2)
calculate_greeks_L25 ==
    /\ At("calculate_greeks", 25)
    /\ Bind("theta",
            cg_theta(args.S, args.K, args.T, args.r, args.sigma, locals.D1, locals.D2), 26)
    /\ UNCHANGED <<fn, args, ret, prev>>
    /\ UNCHANGED script_vars

\* Line 26: vega = S * norm.pdf(D1) * np.sqrt(T)
calculate_greeks_L26 ==
    /\ At("calculate_greeks", 26)
    /\ Bind("vega", cg_vega(args.S, args.T, locals.D1), 27)
    /\ UNCHANGED <<fn, args, ret, prev>>
    /\ UNCHANGED script_vars

\* Line 27: rho = K * T * np.exp(-r * T) * norm.cdf(D2)
calculate_greeks_L27 ==
    /\ At("calculate_greeks", 27)
    /\ Bind("rho", cg_rho(args.K, args.T, args.r, locals.D2), 29)
    /\ UNCHANGED <<fn, args, ret, prev>>
    /\ UNCHANGED script_vars

\* Line 29: return delta, theta, vega, rho
calculate_greeks_L29 ==
    /\ At("calculate_greeks", 29)
    /\ ret' = cg_return(locals.delta, locals.theta, locals.vega, locals.rho)
    /\ status' = "returned"
    /\ UNCHANGED <<fn, args, line, locals, exc, prev>>
    /\ UNCHANGED script_vars

EngineNext ==
    \/ Invoke \/ InvokeAgain
    \/ black_scholes_L14 \/ black_scholes_L15 \/ black_scholes_L16
    \/ black_scholes_L17 \/ black_scholes_L18
    \/ calculate_greeks_L21 \/ calculate_greeks_L22 \/ calculate_greeks_L24
    \/ calculate_greeks_L25 \/ calculate_greeks_L26 \/ calculate_greeks_L27
    \/ calculate_greeks_L29

EngineSpec == Init /\ [][EngineNext]_vars

(***************************************************************************)
(* Properties.                                                             *)
(***************************************************************************)

FZero == Zero(1)

\* The engine's domain: S, K, T and sigma strictly positive.
ValidArgs(a) == FGt(a.S, FZero) /\ FGt(a.K, FZero) /\ FGt(a.T, FZero) /\ FGt(a.sigma, FZero)

\* The four invalid inputs the specification lists: T = 0, sigma = 0,
\* S = -1, K = 0.
InvalidArgs(a) == IsZero(a.T) \/ IsZero(a.sigma) \/ a.S = FromInt(-1) \/ IsZero(a.K)

\* A complete result of function f: every field present and assigned.
Complete(f, v) ==
    /\ Len(v) = (IF f = "black_scholes" THEN 2 ELSE 4)
    /\ \A i \in 1..Len(v) : IsSet(v[i])

\* The parity tolerance at the model's precision: eight units in the last
\* place of S + K (binary64 resolves the specification's 1e-8 at the prices
\* the sliders give; PrecBits bits resolve this much).
ParityTol(a) == FMul(FAdd(a.S, a.K), Round(1, 1, 3 - PrecBits))

\* |(c - p) - (S - K e^(-rT))| <= tolerance; false when either side is NaN.
ParityHolds(a, c, p) ==
    FLe(FAbs(FSub(FSub(c, p), FSub(a.S, FMul(a.K, FExp(FMul(FNeg(a.r), a.T)))))),
        ParityTol(a))

\* C1: for every valid input (S, K, T, sigma > 0, any real r) the pair
\* black_scholes returns satisfies put-call parity: callPrice - putPrice
\* equals S - K e^(-rT) within the tolerance.
C1_PutCallParity ==
    (status = "returned" /\ fn = "black_scholes" /\ ValidArgs(args))
        => ParityHolds(args, ret[1], ret[2])

\* C2: a call of black_scholes or calculate_greeks with T = 0, sigma = 0,
\* S = -1 or K = 0 ends in an InvalidParameter error before any formula is
\* computed: nothing is bound, nothing is returned, and no other exception
\* is raised.
C2_InvalidInputRejected ==
    (status # "idle" /\ InvalidArgs(args))
        => /\ locals = NoLocals
           /\ ret = <<>>
           /\ status # "returned"
           /\ (status = "raised" => exc = "InvalidParameter")

\* C3: every call is all-or-nothing: once it has returned, the result is
\* complete (both prices, or all four Greeks, each assigned); until then,
\* and when it raises, there is no result at all.
C3_AllOrNothing ==
    /\ status = "returned" => Complete(fn, ret)
    /\ status # "returned" => ret = <<>>
    /\ prev.has => Complete("black_scholes", prev.ret)

\* C3 witness: calculate_greeks has returned all four Greeks.
C3_Witness ==
    status = "returned" /\ fn = "calculate_greeks" /\ Len(ret) = 4 /\ ValidArgs(args)

\* C5: for every valid input with r > 0 (and S, K, T, sigma > 0),
\* calculate_greeks returns delta in [0, 1], vega >= 0 and rho >= 0.
C5_GreeksBounds ==
    (status = "returned" /\ fn = "calculate_greeks" /\ ValidArgs(args) /\ FGt(args.r, FZero))
        => /\ FGe(ret[1], FZero) /\ FLe(ret[1], One)
           /\ FGe(ret[3], FZero)
           /\ FGe(ret[4], FZero)

\* C6: for every in-domain input (S, K, T, sigma > 0, finite r),
\* black_scholes returns a call price and a put price that are both finite
\* and both >= 0.
C6_PricesFiniteNonNegative ==
    (status = "returned" /\ fn = "black_scholes" /\ ValidArgs(args) /\ IsFinite(args.r))
        => /\ IsFinite(ret[1]) /\ FGe(ret[1], FZero)
           /\ IsFinite(ret[2]) /\ FGe(ret[2], FZero)

\* C7: with K, T, r, sigma fixed at valid values, of two calls of
\* black_scholes the one with the smaller spot price has the smaller or
\* equal call price and the larger or equal put price.
C7_MonotoneInSpot ==
    (status = "returned" /\ fn = "black_scholes" /\ prev.has
       /\ ValidArgs(args) /\ FGt(prev.S, FZero))
        => /\ FLe(prev.S, args.S) => (FLe(prev.ret[1], ret[1]) /\ FGe(prev.ret[2], ret[2]))
           /\ FLe(args.S, prev.S) => (FLe(ret[1], prev.ret[1]) /\ FGe(ret[2], prev.ret[2]))

\* The arguments of a logged call are in the engine's domain, so that in d1
\* the divisor sigma * sqrt(T) is not zero and S / K, whose logarithm is
\* taken, is positive.
InDomain(c) ==
    /\ FGt(c.S, FZero) /\ FGt(c.K, FZero) /\ FGt(c.T, FZero) /\ FGt(c.sigma, FZero)
    /\ ~IsZero(FMul(c.sigma, FSqrt(c.T)))
    /\ FGt(FDiv(c.S, c.K), FZero)

\* C8: every call the script makes to black_scholes and calculate_greeks
\* (the single evaluation, the sweep evaluations, the Greeks evaluation)
\* receives S > 0, K > 0, T > 0 and sigma > 0, so d1 never divides by zero
\* and never takes the logarithm of a non-positive number; no run ends in an
\* exception.  Each call is the last of the log in the state after it.
C8_SlidersEnforceDomain ==
    /\ pc # "error"
    /\ T_days >= 1
    /\ calls # <<>> => InDomain(calls[Len(calls)])

\* C8 witness: a whole run (202 calls) with the sigma slider at its minimum.
C8_Witness ==
    /\ pc = "done" /\ Len(calls) = 2 * NUM_STRIKES + 2
    /\ sigma = sigma_value(SIGMA_MIN)

\* The arguments other than the strike of the i-th logged call are those of
\* the single evaluation, the first of the log.
SameButStrike(i) ==
    /\ calls[i].fn = "black_scholes"
    /\ calls[i].S = calls[1].S /\ calls[i].T = calls[1].T
    /\ calls[i].r = calls[1].r /\ calls[i].sigma = calls[1].sigma

\* C9: once the sweep is over there are exactly 100 strikes, strictly
\* increasing, the first 0.5 * S and the last 1.5 * S; the call-price and
\* put-price sequences have length 100, and the i-th call price and the
\* i-th put price are what black_scholes returned for the i-th strike with
\* S, T, r, sigma those of the single evaluation.
C9_StrikeSweep ==
    pc \in {"L65", "L87", "done"} =>
        /\ Len(K_values) = NUM_STRIKES
        /\ FEq(K_values[1], FMul(Half, S))
        /\ FEq(K_values[NUM_STRIKES], FMul(FromRatio(3, 2), S))
        /\ \A i \in 1..(NUM_STRIKES - 1) : FLt(K_values[i], K_values[i + 1])
        /\ Len(call_prices) = NUM_STRIKES /\ Len(put_prices) = NUM_STRIKES
        /\ calls[1].S = S
        /\ \A i \in 1..NUM_STRIKES :
              /\ SameButStrike(1 + i) /\ SameButStrike(1 + NUM_STRIKES + i)
              /\ calls[1 + i].K = K_values[i]
              /\ calls[1 + NUM_STRIKES + i].K = K_values[i]
              /\ call_prices[i] = calls[1 + i].ret[1]
              /\ put_prices[i] = calls[1 + NUM_STRIKES + i].ret[2]

\* C9 witness: a finished run whose sweep was made at the largest spot price.
C9_Witness ==
    /\ pc = "done" /\ S = S_value(S_MAX)
    /\ Len(call_prices) = NUM_STRIKES /\ Len(put_prices) = NUM_STRIKES

\* C10: the sweep leaves the user's parameters unchanged: the
\* calculate_greeks call of line 87, the last of the run, receives the same
\* (S, K, T_years, r, sigma) as the black_scholes call of line 45, the first,
\* and K is still that strike.
C10_SweepKeepsStrike ==
    pc = "done" =>
        /\ calls[1].fn = "black_scholes"
        /\ calls[Len(calls)].fn = "calculate_greeks"
        /\ calls[Len(calls)].S = calls[1].S /\ calls[Len(calls)].K = calls[1].K
        /\ calls[Len(calls)].T = calls[1].T /\ calls[Len(calls)].r = calls[1].r
        /\ calls[Len(calls)].sigma = calls[1].sigma
        /\ K = calls[1].K
        /\ \E n \in K_slider : K = K_value(n)

\* C10 witness: a finished run, both comprehensions having run over all 100
\* strikes, with the strike slider moved to its maximum.
C10_Witness ==
    /\ pc = "done" /\ Len(calls) = 2 * NUM_STRIKES + 2
    /\ K = K_value(K_MAX) /\ greeks # <<>>
=============================================================================
